---- MODULE Spec2Model ----
(***************************************************************************)
(* Model of bucko (src/bucko/__init__.py): compose-URL resolution from the *)
(* CI_MESSAGE / COMPOSE_URL environment, dist-git branch naming, and the   *)
(* scratch-build pipeline of main().                                       *)
(*                                                                         *)
(* Python strings are sequences of one-character strings, so that split,   *)
(* upper/lower, float parsing and %-interpolation are computed character   *)
(* by character, as the interpreter does.                                  *)
(***************************************************************************)
EXTENDS Integers, Sequences, FiniteSets, TLC

VARIABLES
    pc,             \* position of the run (or of the function under study)
    ci_message,     \* os.environ['CI_MESSAGE'], described by what json.loads makes of it
    env_compose_url,\* os.environ['COMPOSE_URL'] (Absent when undefined)
    workspace,      \* os.environ['WORKSPACE']: "unset", "dir" (exists) or "nodir"
    cli_compose,    \* the --compose command line argument (None when not given)
    env_result,     \* outcome of compose_url_from_env()
    compose_url,    \* main's compose_url (args.compose)
    release,        \* compose.info.release: [short, version]
    compose_id,     \* compose.info.compose.id
    branch_result,  \* value returned by get_branch
    base_product,   \* what get_compose looked up in the <branch>-base section
    repo_url,       \* URL returned by publishing the .repo file
    parent,         \* build_container's local `parent`
    task_id,        \* build_container's local `task_id`
    repositories,   \* build_container's local `repositories`
    json_file,      \* content of the JSON file written by write_metadata_file
    submitted,      \* arguments of the calls of koji.build_container, in call order
    metadata,       \* the result / metadata dict: a function from keys to values
    published,      \* files published through the Publisher, in call order
    props_file,     \* lines of $WORKSPACE/osbs.props (None while not written)
    events,         \* calls into the external collaborators, in call order
    exit_status,    \* None while running, 0 on return from main, 1 on an exception
    error           \* the exception that ended the run (None if none)

vars == <<pc, ci_message, env_compose_url, workspace, cli_compose, env_result,
          compose_url, release, compose_id, branch_result, base_product,
          repo_url, parent, task_id, repositories, json_file, submitted,
          metadata, published, props_file, events, exit_status, error>>

envVars == <<ci_message, env_compose_url, workspace, cli_compose>>

runVars == <<compose_url, compose_id, base_product, repo_url, parent, task_id,
             repositories, json_file, submitted, metadata, published,
             props_file, events, exit_status, error>>

----------------------------------------------------------------------------
(* Values *)

\* Python's None.
None == [py |-> "None"]

\* An environment variable that is not defined.
Absent == [py |-> "unset"]

\* A Python string: its characters, one per element.
Str(chars) == [py |-> "str", s |-> chars]

\* A Python integer.
PyInt(n) == [py |-> "int", n |-> n]

\* A Python list whose elements the model does not look into (a JSON array).
JList == [py |-> "list"]

\* A Python list of known elements.
PyList(items) == [py |-> "list", items |-> items]

\* A Python dict: a function from its keys to their values.
Dict(f) == [py |-> "dict", items |-> f]

\* A function's outcome: a returned value, or a raised exception.
Ret(v) == [kind |-> "return", val |-> v]
Raise(e) == [kind |-> "raise", exc |-> e]

----------------------------------------------------------------------------
(* String helpers: the str methods the code calls *)

Digits == <<"0", "1", "2", "3", "4", "5", "6", "7", "8", "9">>
LowerCase == <<"a","b","c","d","e","f","g","h","i","j","k","l","m",
               "n","o","p","q","r","s","t","u","v","w","x","y","z">>
UpperCase == <<"A","B","C","D","E","F","G","H","I","J","K","L","M",
               "N","O","P","Q","R","S","T","U","V","W","X","Y","Z">>

IsString(v) == v.py = "str"

IndexIn(c, alphabet) ==
    IF \E i \in 1..Len(alphabet) : alphabet[i] = c
    THEN CHOOSE i \in 1..Len(alphabet) : alphabet[i] = c
    ELSE 0

\* str.upper()
UpperChar(c) == IF IndexIn(c, LowerCase) > 0 THEN UpperCase[IndexIn(c, LowerCase)] ELSE c
Upper(s) == [i \in 1..Len(s) |-> UpperChar(s[i])]

\* str.lower()
LowerChar(c) == IF IndexIn(c, UpperCase) > 0 THEN LowerCase[IndexIn(c, UpperCase)] ELSE c
Lower(s) == [i \in 1..Len(s) |-> LowerChar(s[i])]

\* str.startswith(prefix)
StartsWith(s, prefix) ==
    /\ Len(prefix) <= Len(s)
    /\ SubSeq(s, 1, Len(prefix)) = prefix

\* Index of the first occurrence of character c in s at or after from; 0 if none.
FindChar(s, c, from) ==
    IF \E i \in from..Len(s) : s[i] = c
    THEN CHOOSE i \in from..Len(s) : s[i] = c /\ \A j \in from..(i-1) : s[j] # c
    ELSE 0

\* str.split(sep, maxsplit) for a one-character separator: a sequence of strings.
RECURSIVE Split(_, _, _)
Split(s, sep, maxsplit) ==
    LET i == FindChar(s, sep, 1) IN
    IF maxsplit = 0 \/ i = 0 THEN <<s>>
    ELSE <<SubSeq(s, 1, i-1)>> \o Split(SubSeq(s, i+1, Len(s)), sep, maxsplit - 1)

\* str(n) for a natural number n.
RECURSIVE NatToStr(_)
NatToStr(n) ==
    IF n < 10 THEN <<Digits[n+1]>>
    ELSE NatToStr(n \div 10) \o <<Digits[(n % 10) + 1]>>

IsDigit(c) == IndexIn(c, Digits) > 0
AllDigits(s) == \A i \in 1..Len(s) : IsDigit(s[i])

\* Value of a string of decimal digits (0 for the empty string).
RECURSIVE DigitsToNat(_)
DigitsToNat(s) ==
    IF Len(s) = 0 THEN 0
    ELSE 10 * DigitsToNat(SubSeq(s, 1, Len(s)-1)) + (IndexIn(s[Len(s)], Digits) - 1)

\* int(float(s)) for the literals digits, digits.digits, digits. and .digits:
\* the float's value truncated towards zero is the value of the digits before
\* the point.  Any other text over the model's alphabet makes float() raise
\* ValueError (the inputs contain no exponent, sign, inf or nan literal).
IntOfFloat(s) ==
    LET dot == FindChar(s, ".", 1)
        ip  == IF dot = 0 THEN s ELSE SubSeq(s, 1, dot-1)
        fp  == IF dot = 0 THEN <<>> ELSE SubSeq(s, dot+1, Len(s))
    IN IF AllDigits(ip) /\ AllDigits(fp) /\ Len(ip) + Len(fp) > 0
       THEN Ret(DigitsToNat(ip))
       ELSE Raise("ValueError")

----------------------------------------------------------------------------
(* The % operator on a format string and a mapping *)

\* repr of a list of strings: ['a', 'b'].
RECURSIVE ReprItems(_)
ReprItems(items) ==
    IF Len(items) = 0 THEN <<>>
    ELSE <<"'">> \o items[1].s \o <<"'">>
           \o (IF Len(items) > 1 THEN <<",", " ">> ELSE <<>>) \o ReprItems(Tail(items))

\* str(v), as the %s conversion and str() apply it.
StrOf(v) ==
    IF v.py = "int" THEN NatToStr(v.n)
    ELSE IF v.py = "list" THEN <<"[">> \o ReprItems(v.items) \o <<"]">>
    ELSE IF v.py = "None" THEN <<"N","o","n","e">>
    ELSE v.s

\* Prepend the literal text to a formatting outcome (the outcome of the rest
\* is computed once and bound to r).
Emit(text, rest) ==
    CHOOSE out \in {IF r.kind = "return" THEN Ret(text \o r.val) ELSE r : r \in {rest}} : TRUE

\* Interpolation of template t from position i with the mapping m (a function
\* from key strings to values).  Handles %%, and %(key)s, %(key)d, %(key)%.
\* A bare % before any other character raises (the model's templates never
\* put s or r after a bare %, the two conversions that would print the dict).
RECURSIVE Interpolate(_, _, _)
Interpolate(t, i, m) ==
    IF i > Len(t) THEN Ret(<<>>)
    ELSE IF t[i] # "%" THEN Emit(<<t[i]>>, Interpolate(t, i+1, m))
    ELSE IF i = Len(t) THEN Raise("ValueError")            \* incomplete format
    ELSE IF t[i+1] = "%" THEN Emit(<<"%">>, Interpolate(t, i+2, m))
    ELSE IF t[i+1] = "(" THEN
        LET close == FindChar(t, ")", i+2) IN
        IF close = 0 THEN Raise("ValueError")              \* incomplete format key
        ELSE LET key == SubSeq(t, i+2, close-1) IN
             IF key \notin DOMAIN m THEN Raise("KeyError")
             ELSE IF close = Len(t) THEN Raise("ValueError")   \* incomplete format
             ELSE LET conv == t[close+1] IN
                  IF conv = "s" THEN Emit(StrOf(m[key]), Interpolate(t, close+2, m))
                  ELSE IF conv = "d" THEN
                      IF m[key].py = "int"
                      THEN Emit(StrOf(m[key]), Interpolate(t, close+2, m))
                      ELSE Raise("TypeError")
                  ELSE IF conv = "%" THEN Emit(<<"%">>, Interpolate(t, close+2, m))
                  ELSE Raise("ValueError")                 \* unsupported format character
    ELSE IF t[i+1] = "x" THEN Raise("TypeError")           \* %x of a dict
    ELSE Raise("ValueError")

\* Format, were a template that is not a string handed back as the result.
Format_none_passthrough(template, m) ==
    IF template.py # "str" THEN Ret(template)
    ELSE LET r == Interpolate(template.s, 1, m) IN
         IF r.kind = "return" THEN Ret(Str(r.val)) ELSE r

\* compose_url % {...}: None has no % operator.
Format(template, m) ==
    IF template.py # "str" THEN Raise("TypeError")
    ELSE LET r == Interpolate(template.s, 1, m) IN
         IF r.kind = "return" THEN Ret(Str(r.val)) ELSE r

----------------------------------------------------------------------------
(* Compose URL resolution *)

S_branch == <<"b","r","a","n","c","h">>
S_major  == <<"m","a","j","o","r">>
S_distro == <<"d","i","s","t","r","o">>

\* msg[key]: KeyError on a dict without the key, TypeError on a value that is
\* not a dict (list, string, number, null).
GetItem(msg, key) ==
    IF msg.py = "dict"
    THEN IF key \in DOMAIN msg.items THEN Ret(msg.items[key]) ELSE Raise("KeyError")
    ELSE Raise("TypeError")

\* InterpolateBranch without distro.upper().
InterpolateBranch_no_upper(branch, url) ==
    IF branch.py # "str" THEN Raise("AttributeError")
    ELSE LET parts == Split(branch.s, "-", 2) IN
         IF Len(parts) # 3 THEN Raise("ValueError")
         ELSE LET major == IntOfFloat(parts[2]) IN
              IF major.kind = "raise" THEN major
              ELSE Format(url, (S_branch :> branch)
                               @@ (S_major :> PyInt(major.val))
                               @@ (S_distro :> Str(parts[3])))

\* The interpolation of the lines after the two try blocks.
InterpolateBranch(branch, url) ==
    IF ~IsString(branch) THEN Raise("AttributeError")       \* no .split
    ELSE CHOOSE out \in
        {IF Len(parts) # 3 THEN Raise("ValueError")         \* tuple unpacking
         ELSE LET major == IntOfFloat(parts[2]) IN
              IF major.kind = "raise" THEN major
              ELSE Format(url, (S_branch :> branch)
                               @@ (S_major :> PyInt(major.val))
                               @@ (S_distro :> Str(Upper(parts[3])))) :
            parts \in {Split(branch.s, "-", 2)}} : TRUE

\* parse_ci_message, were the "branch" key tried before the "compose_url" key.
parse_ci_message_branch_first(msg, url) ==
    LET first == GetItem(msg, "branch") IN
    IF first.kind = "return" THEN InterpolateBranch(first.val, url)
    ELSE IF first.exc # "KeyError" THEN first
    ELSE LET second == GetItem(msg, "compose_url") IN
         IF second.kind = "raise"
         THEN IF second.exc = "KeyError" THEN Ret(url) ELSE second
         ELSE second

parse_ci_message(msg, url) ==
    LET first == GetItem(msg, "compose_url") IN
    IF first.kind = "return" THEN first
    ELSE IF first.exc # "KeyError" THEN first
    ELSE LET second == GetItem(msg, "branch") IN
         IF second.kind = "raise"
         THEN IF second.exc = "KeyError" THEN Ret(url) ELSE second
         ELSE InterpolateBranch(second.val, url)

\* os.environ.get(name, '')
EnvGet(v) == IF v = Absent THEN Str(<<>>) ELSE v

\* json.loads of the CI_MESSAGE text.  The text is described by what the
\* parser makes of it: the empty string and text that is not JSON raise
\* ValueError, any other text yields its value.
JsonLoads(text) ==
    IF text.py = "json" THEN Ret(text.val) ELSE Raise("ValueError")

\* compose_url_from_env, were COMPOSE_URL forgotten when CI_MESSAGE is not JSON.
compose_url_from_env_no_fallback(message, url_env) ==
    LET raw == EnvGet(url_env)
        url == IF raw = Str(<<>>) THEN None ELSE raw
        msg == JsonLoads(EnvGet(message))
    IN IF msg.kind = "raise" THEN Ret(None)
       ELSE parse_ci_message(msg.val, url)

\* compose_url_from_env without the test for an empty COMPOSE_URL.
compose_url_from_env_keep_empty(message, url_env) ==
    LET url == EnvGet(url_env)
        msg == JsonLoads(EnvGet(message))
    IN IF msg.kind = "raise" THEN Ret(url)
       ELSE parse_ci_message(msg.val, url)

compose_url_from_env(message, url_env) ==
    LET raw == EnvGet(url_env)
        url == IF raw = Str(<<>>) THEN None ELSE raw
        msg == JsonLoads(EnvGet(message))
    IN IF msg.kind = "raise" THEN Ret(url)
       ELSE parse_ci_message(msg.val, url)

----------------------------------------------------------------------------
(* Inputs of compose URL resolution *)

\* Longest COMPOSE_URL, counted in pieces.
MaxTplPieces == 3
\* Most '-'-separated segments of a "branch" value.
MaxSegs == 4

P_lit    == <<"x", "/">>
P_branch == <<"%","(">> \o S_branch \o <<")","s">>
P_major  == <<"%","(">> \o S_major \o <<")","s">>
P_distro == <<"%","(">> \o S_distro \o <<")","s">>
P_pct    == <<"%">>
TplPieces == {P_lit, P_branch, P_major, P_distro, P_pct}

S_ceph == <<"c","e","p","h">>
BranchSegs == {S_ceph, <<"3",".","9">>, <<"1","2">>, <<>>}

\* "ceph-3.0-rhel-7" and "http://x/%(branch)s/%(major)s/%(distro)s"
ExampleBranch == <<"c","e","p","h","-","3",".","0","-","r","h","e","l","-","7">>
ExampleTemplate ==
    <<"h","t","t","p",":","/","/","x","/">> \o P_branch \o <<"/">> \o P_major
        \o <<"/">> \o P_distro

SeqsUpTo(S, n) == UNION {[1..k -> S] : k \in 0..n}

RECURSIVE Join(_, _)
Join(q, sep) ==
    IF Len(q) = 0 THEN <<>>
    ELSE IF Len(q) = 1 THEN q[1]
    ELSE q[1] \o sep \o Join(Tail(q), sep)

Templates == {Join(q, <<>>) : q \in SeqsUpTo(TplPieces, MaxTplPieces)} \cup {ExampleTemplate}
BranchStrings == {Join(q, <<"-">>) : q \in SeqsUpTo(BranchSegs, MaxSegs) \ {<<>>}}
                     \cup {ExampleBranch}

\* The values COMPOSE_URL takes: undefined, empty, or a template.
ComposeUrlEnvs == {Absent} \cup {Str(t) : t \in Templates}

\* CI_MESSAGE text that json.loads accepts, by the value it yields.
Json(v) == [py |-> "json", val |-> v]
\* CI_MESSAGE text that is not JSON.
NotJson == [py |-> "text"]

UrlValues == {Str(<<>>), Str(P_lit), PyInt(7)}
FewBranchValues == {Str(ExampleBranch), Str(S_ceph), PyInt(7)}
BranchValues == {Str(b) : b \in BranchStrings} \cup {PyInt(7)}

\* JSON objects: with "compose_url" (and maybe "branch"), with "branch" only,
\* and with neither key.
MsgDicts ==
    {Dict("compose_url" :> u) : u \in UrlValues}
    \cup {Dict(("compose_url" :> u) @@ ("branch" :> b)) : u \in UrlValues, b \in FewBranchValues}
    \cup {Dict("branch" :> b) : b \in BranchValues}
    \cup {Dict(("branch" :> b) @@ ("other" :> PyInt(7))) : b \in FewBranchValues}
    \cup {Dict(<<>>), Dict("other" :> Str(P_lit))}

CiMessages ==
    {Absent, Str(<<>>), NotJson}
    \cup {Json(v) : v \in {None, JList, PyInt(7), Str(ExampleBranch)}}
    \cup {Json(d) : d \in MsgDicts}

----------------------------------------------------------------------------
(* Compose URL resolution on its own: compose_url_from_env() over the       *)
(* environments above                                                        *)

\* The state of a run before main() has done anything.
NothingRun ==
    /\ compose_url = None /\ compose_id = None /\ base_product = None
    /\ repo_url = None /\ parent = None /\ task_id = None
    /\ repositories = None /\ json_file = None /\ submitted = <<>>
    /\ metadata = None /\ published = <<>> /\ props_file = None
    /\ events = <<>> /\ exit_status = None /\ error = None

InitCompose ==
    /\ pc = "env"
    /\ ci_message \in CiMessages
    /\ env_compose_url \in ComposeUrlEnvs
    /\ workspace = "unset"
    /\ cli_compose = None
    /\ env_result = None
    /\ release = None /\ branch_result = None
    /\ NothingRun

ResolveFromEnv ==
    /\ pc = "env"
    /\ env_result' = compose_url_from_env(ci_message, env_compose_url)
    /\ pc' = "resolved"
    /\ UNCHANGED <<envVars, release, branch_result, runVars>>

NextCompose == ResolveFromEnv

SpecCompose == InitCompose /\ [][NextCompose]_vars

----------------------------------------------------------------------------
(* Properties of compose URL resolution (checked under SpecCompose) *)

\* The CI_MESSAGE payload is a JSON object.
IsObject == ci_message.py = "json" /\ ci_message.val.py = "dict"
HasKey(k) == IsObject /\ k \in DOMAIN ci_message.val.items
KeyVal(k) == ci_message.val.items[k]
\* The payload is absent or is not valid JSON.
NoPayload == ci_message.py # "json"
\* The fallback template is absent or empty.
TemplateNull == env_compose_url = Absent \/ env_compose_url = Str(<<>>)

\* s with every occurrence of pat replaced by rep, scanning left to right.
RECURSIVE ReplaceAll(_, _, _)
ReplaceAll(s, pat, rep) ==
    IF Len(s) < Len(pat) THEN s
    ELSE IF SubSeq(s, 1, Len(pat)) = pat
         THEN rep \o ReplaceAll(SubSeq(s, Len(pat)+1, Len(s)), pat, rep)
         ELSE <<s[1]>> \o ReplaceAll(Tail(s), pat, rep)

Contains(s, pat) == ReplaceAll(s, pat, <<>>) # s
DashPositions(b) == {i \in 1..Len(b) : b[i] = "-"}
Min(S) == CHOOSE x \in S : \A y \in S : x <= y
Dash1(b) == Min(DashPositions(b))
Dash2(b) == Min(DashPositions(b) \ {Dash1(b)})
NameSeg(b) == SubSeq(b, 1, Dash1(b) - 1)
VersionSeg(b) == SubSeq(b, Dash1(b) + 1, Dash2(b) - 1)
DistroSeg(b) == SubSeq(b, Dash2(b) + 1, Len(b))
\* A decimal literal: digits with at most one point, and at least one digit.
IsNumeric(v) ==
    /\ \A i \in 1..Len(v) : IsDigit(v[i]) \/ v[i] = "."
    /\ Cardinality({i \in 1..Len(v) : v[i] = "."}) <= 1
    /\ \E i \in 1..Len(v) : IsDigit(v[i])
\* The value of a decimal literal, truncated to an integer.
Truncated(v) ==
    LET whole == IF \E i \in 1..Len(v) : v[i] = "."
                 THEN SubSeq(v, 1, (CHOOSE i \in 1..Len(v) : v[i] = ".") - 1)
                 ELSE v
    IN DigitsToNat(whole)
\* <name>-<version>-<distro> with a numeric version.
WellFormedBranch(v) ==
    /\ v.py = "str"
    /\ Cardinality(DashPositions(v.s)) >= 2
    /\ IsNumeric(VersionSeg(v.s))
\* The template without its placeholders: its literal text.
LiteralText(t) ==
    ReplaceAll(ReplaceAll(ReplaceAll(t, P_branch, <<>>), P_major, <<>>), P_distro, <<>>)
\* The template holds the three placeholders, and no other use of '%'.
ThreePlaceholders(t) ==
    /\ t.py = "str"
    /\ Contains(t.s, P_branch) /\ Contains(t.s, P_major) /\ Contains(t.s, P_distro)
    /\ \A i \in 1..Len(LiteralText(t.s)) : LiteralText(t.s)[i] # "%"
Substituted(t, b) ==
    ReplaceAll(ReplaceAll(ReplaceAll(t, P_branch, b),
                          P_major, NatToStr(Truncated(VersionSeg(b)))),
               P_distro, Upper(DistroSeg(b)))
\* "http://x/ceph-3.0-rhel-7/3/RHEL-7"
ExampleResult ==
    <<"h","t","t","p",":","/","/","x","/">> \o ExampleBranch
        \o <<"/","3","/","R","H","E","L","-","7">>

\* C1: a payload that is a JSON object with the key compose_url resolves to
\* exactly that key's value, whatever its branch key and whatever COMPOSE_URL.
C1_ComposeUrlKeyWins ==
    (pc = "resolved" /\ HasKey("compose_url"))
        => env_result = Ret(KeyVal("compose_url"))

\* The payload holds compose_url and a malformed branch, the template has
\* placeholders, and the key's value came back.
C1_Witness ==
    /\ pc = "resolved"
    /\ ci_message = Json(Dict(("compose_url" :> Str(P_lit)) @@ ("branch" :> Str(S_ceph))))
    /\ env_compose_url = Str(ExampleTemplate)
    /\ env_result = Ret(Str(P_lit))

\* C2: a payload with branch <name>-<version>-<distro> (numeric version) and no
\* compose_url, with a template made of literal text and the placeholders
\* branch, major and distro, resolves to the template with branch replaced by
\* the branch string, major by the truncated version and distro by the
\* uppercased rest after the second '-'; ceph-3.0-rhel-7 gives
\* http://x/ceph-3.0-rhel-7/3/RHEL-7.
C2_BranchInterpolation ==
    /\ (/\ pc = "resolved"
        /\ HasKey("branch") /\ ~HasKey("compose_url")
        /\ WellFormedBranch(KeyVal("branch"))
        /\ ThreePlaceholders(env_compose_url))
           => env_result = Ret(Str(Substituted(env_compose_url.s, KeyVal("branch").s)))
    /\ (/\ pc = "resolved"
        /\ ci_message = Json(Dict("branch" :> Str(ExampleBranch)))
        /\ env_compose_url = Str(ExampleTemplate))
           => env_result = Ret(Str(ExampleResult))
    /\ (/\ pc = "resolved"
        /\ ci_message = Json(Dict("branch" :> Str(<<"c","e","p","h","-","3",".","9","-","1","2","-","c","e","p","h">>)))
        /\ env_compose_url = Str(P_distro \o P_major \o P_branch))
           => env_result = Ret(Str(<<"1","2","-","C","E","P","H","3">>
                                   \o <<"c","e","p","h","-","3",".","9","-","1","2","-","c","e","p","h">>))

C2_Witness ==
    /\ pc = "resolved"
    /\ ci_message = Json(Dict("branch" :> Str(ExampleBranch)))
    /\ env_compose_url = Str(ExampleTemplate)
    /\ env_result = Ret(Str(ExampleResult))

\* C3 as stated: an absent payload, a payload that is not valid JSON and any
\* JSON value without the keys compose_url and branch resolve to the fallback
\* template unchanged, and to null when the template is empty or absent.
C3_AnyJsonValueFallsBack ==
    (pc = "resolved" /\ ~HasKey("compose_url") /\ ~HasKey("branch"))
        => env_result = Ret(IF TemplateNull THEN None ELSE env_compose_url)

\* C3, amended: an absent payload, a payload that is not valid JSON and a JSON
\* object without the keys compose_url and branch resolve to the fallback
\* template unchanged, and to null when the template is empty or absent.
C3_FallbackTemplate ==
    (/\ pc = "resolved"
     /\ NoPayload \/ (IsObject /\ ~HasKey("compose_url") /\ ~HasKey("branch")))
        => env_result = Ret(IF TemplateNull THEN None ELSE env_compose_url)

\* An object with neither key, and a template with placeholders returned as it is.
C3_Witness ==
    /\ pc = "resolved"
    /\ ci_message = Json(Dict("other" :> Str(P_lit)))
    /\ env_compose_url = Str(ExampleTemplate)
    /\ env_result = Ret(Str(ExampleTemplate))

\* C4 as stated: resolution never returns the empty string, on any path.
C4_NeverEmptyString ==
    (pc = "resolved" /\ env_result.kind = "return") => env_result.val # Str(<<>>)

\* C4, amended: the empty string is normalized to null on the raw fallback
\* path only (payload absent, not JSON, or an object without both keys): there
\* the result is never the empty string, and is null for an empty COMPOSE_URL.
C4_FallbackNeverEmpty ==
    (/\ pc = "resolved"
     /\ NoPayload \/ (IsObject /\ ~HasKey("compose_url") /\ ~HasKey("branch")))
        => /\ env_result.kind = "return"
           /\ env_result.val # Str(<<>>)
           /\ (env_compose_url = Str(<<>>) => env_result.val = None)

\* COMPOSE_URL is set to the empty string, there is no payload, and null came back.
C4_Witness ==
    /\ pc = "resolved"
    /\ ci_message = NotJson
    /\ env_compose_url = Str(<<>>)
    /\ env_result = Ret(None)

\* C5 as stated: with branch and without compose_url, resolution raises when
\* the template is null, when the template lacks one of the placeholders
\* branch / major / distro, and when branch does not split into three segments.
C5_ErrorInThreeCases ==
    (/\ pc = "resolved"
     /\ HasKey("branch") /\ ~HasKey("compose_url")
     /\ \/ TemplateNull
        \/ ~Contains(env_compose_url.s, P_branch)
        \/ ~Contains(env_compose_url.s, P_major)
        \/ ~Contains(env_compose_url.s, P_distro)
        \/ KeyVal("branch").py # "str"
        \/ Cardinality(DashPositions(KeyVal("branch").s)) < 2)
        => env_result.kind = "raise"

\* C5, amended: with branch and without compose_url, resolution raises (and
\* returns no URL) when the template is null and when branch does not split
\* into three segments.
C5_ErrorInTwoCases ==
    (/\ pc = "resolved"
     /\ HasKey("branch") /\ ~HasKey("compose_url")
     /\ \/ TemplateNull
        \/ KeyVal("branch").py # "str"
        \/ Cardinality(DashPositions(KeyVal("branch").s)) < 2)
        => env_result.kind = "raise"

\* A well-formed branch with no COMPOSE_URL at all, ending in an exception.
C5_Witness ==
    /\ pc = "resolved"
    /\ ci_message = Json(Dict("branch" :> Str(ExampleBranch)))
    /\ env_compose_url = Absent
    /\ env_result = Raise("TypeError")

\* A two-segment branch with a full template, ending in an exception.
C5_WitnessSegments ==
    /\ pc = "resolved"
    /\ ci_message = Json(Dict("branch" :> Str(S_ceph \o <<"-">> \o S_ceph)))
    /\ env_compose_url = Str(ExampleTemplate)
    /\ env_result = Raise("ValueError")

----------------------------------------------------------------------------
(* Branch naming *)

S_rhceph == <<"r","h">> \o S_ceph
S_rhel7  == <<"-","r","h","e","l","-","7">>

\* get_branch without .lower().
get_branch_no_lower(rel) ==
    LET name    == IF rel.short = S_rhceph THEN S_ceph ELSE rel.short
        version == IF name = S_ceph /\ StartsWith(rel.version, <<"2">>)
                   THEN PyInt(2)
                   ELSE Str(rel.version)
    IN Str(name \o <<"-">> \o StrOf(version) \o S_rhel7)

\* rel: compose.info.release, with the fields short and version (strings).
\* '%s-%s-rhel-7' % (name, version) puts str(name) and str(version) around
\* the literal text.
get_branch(rel) ==
    LET lowered == Lower(rel.short)
        name    == IF lowered = S_rhceph THEN S_ceph ELSE lowered
        version == IF name = S_ceph /\ StartsWith(rel.version, <<"2">>)
                   THEN PyInt(2)
                   ELSE Str(rel.version)
    IN Str(name \o <<"-">> \o StrOf(version) \o S_rhel7)

\* Longest release family, counted in pieces, and longest release version,
\* counted in characters.
MaxFamilyPieces == 2
MaxVersionLen == 3

FamilyPieces == {<<"r","h">>, <<"R","h">>, S_ceph, <<"C","E","P","H">>, <<"e","l">>}
VersionChars == {"2", "4", "5", "0", "."}
Families == {Join(q, <<>>) : q \in SeqsUpTo(FamilyPieces, MaxFamilyPieces)}
Versions == SeqsUpTo(VersionChars, MaxVersionLen)

InitBranch ==
    /\ pc = "get_branch"
    /\ ci_message = Absent /\ env_compose_url = Absent
    /\ workspace = "unset" /\ cli_compose = None /\ env_result = None
    /\ release \in [short : Families, version : Versions]
    /\ branch_result = None
    /\ NothingRun

GetBranch ==
    /\ pc = "get_branch"
    /\ branch_result' = get_branch(release)
    /\ pc' = "got_branch"
    /\ UNCHANGED <<envVars, env_result, release, runVars>>

NextBranch == GetBranch

SpecBranch == InitBranch /\ [][NextBranch]_vars

\* C6: get_branch returns <family>-<version>-rhel-7, family being the
\* lowercased release family with rhceph replaced by ceph, and version the
\* literal 2 when that family is ceph and the release version starts with
\* '2', the release version itself otherwise; rhceph 2.5 gives ceph-2-rhel-7
\* and rhceph 4.0 gives ceph-4.0-rhel-7.
C6_BranchName ==
    pc = "got_branch" =>
        LET family  == IF Lower(release.short) = S_rhceph THEN S_ceph
                       ELSE Lower(release.short)
            collapse == /\ family = S_ceph
                        /\ Len(release.version) > 0
                        /\ release.version[1] = "2"
            expected == family \o <<"-">>
                          \o (IF collapse THEN <<"2">> ELSE release.version)
                          \o <<"-","r","h","e","l","-","7">>
        IN /\ branch_result = Str(expected)
           /\ (release = [short |-> S_rhceph, version |-> <<"2",".","5">>]
                 => branch_result = Str(<<"c","e","p","h","-","2","-","r","h","e","l","-","7">>))
           /\ (release = [short |-> S_rhceph, version |-> <<"4",".","0">>]
                 => branch_result = Str(<<"c","e","p","h","-","4",".","0","-","r","h","e","l","-","7">>))
           /\ (release = [short |-> <<"R","h","C","E","P","H">>, version |-> <<"2","0">>]
                 => branch_result = Str(<<"c","e","p","h","-","2","-","r","h","e","l","-","7">>))
           /\ (release = [short |-> <<"r","h","e","l">>, version |-> <<"2",".","5">>]
                 => branch_result = Str(<<"r","h","e","l","-","2",".","5","-","r","h","e","l","-","7">>))

\* rhceph 2.5 has been named ceph-2-rhel-7.
C6_Witness ==
    /\ pc = "got_branch"
    /\ release = [short |-> S_rhceph, version |-> <<"2",".","5">>]
    /\ branch_result = Str(<<"c","e","p","h","-","2","-","r","h","e","l","-","7">>)

----------------------------------------------------------------------------
(* The run of main() *)

\* Most repositories koji.get_repositories returns.
MaxRepos == 2

S_url == <<"c", "/">>
MainMessages ==
    {Absent,
     Json(JList),
     Json(Dict("compose_url" :> Str(P_lit))),
     Json(Dict("compose_url" :> Str(<<>>))),
     Json(Dict("branch" :> Str(ExampleBranch))),
     Json(Dict("branch" :> Str(S_ceph)))}
MainComposeUrls == {Absent, Str(<<>>), Str(P_lit), Str(ExampleTemplate)}
MainReleases ==
    {[short |-> S_rhceph, version |-> <<"2", ".", "5">>],
     [short |-> <<"R","H","E","L">>, version |-> <<"7">>]}
ComposeIds == {Str(<<"i", "d">>)}
ParentBuilds == {[py |-> "Build", nvr |-> 1], [py |-> "Build", nvr |-> 2]}
PublicUrls == {Str(<<"u","1">>), Str(<<"u","2">>)}
TaskIds == {12}
RepoNames == {Str(<<"r","1">>), Str(<<"r","2">>)}

K_koji_task    == <<"k","o","j","i","_","t","a","s","k">>
K_repository   == <<"r","e","p","o","s","i","t","o","r","y">>
K_repositories == <<"r","e","p","o","s","i","t","o","r","i","e","s">>
K_compose_url  == <<"c","o","m","p","o","s","e","_","u","r","l">>
K_compose_id   == <<"c","o","m","p","o","s","e","_","i","d">>

NoComposeMessage == "Please set the CI_MESSAGE env var or use --compose arg"

Init ==
    /\ pc = "start"
    /\ ci_message \in MainMessages
    /\ env_compose_url \in MainComposeUrls
    /\ workspace \in {"unset", "dir", "nodir"}
    /\ cli_compose \in {None, Str(S_url)}
    /\ env_result = None
    /\ release = None /\ branch_result = None
    /\ NothingRun

\* An uncaught exception (or SystemExit) ends the process with status 1.
Exit(e) ==
    /\ pc' = "failed"
    /\ exit_status' = PyInt(1)
    /\ error' = e

\* An exception of the given type, raised by the interpreter or a collaborator.
Fail(type) == Exit([exc |-> type])

\* A call into a collaborator, with what it returned (Raised if it raised).
Call(name, ret) == [call |-> name, ret |-> ret]
Raised == [py |-> "raise"]

\* Python truth value of a configuration value.
Truthy(v) == v # None /\ v # Str(<<>>)

\* parse_args(): the default of --compose is computed, from the environment,
\* before the command line is parsed; args.compose is kept in compose_url.
ParseArgs ==
    /\ pc = "start"
    /\ LET r == compose_url_from_env(ci_message, env_compose_url) IN
       /\ env_result' = r
       /\ IF r.kind = "raise"
          THEN Fail(r.exc) /\ UNCHANGED compose_url
          ELSE /\ compose_url' = IF cli_compose # None THEN cli_compose ELSE r.val
               /\ pc' = "args"
               /\ UNCHANGED <<exit_status, error>>
    /\ UNCHANGED <<envVars, release, branch_result, compose_id, base_product,
                   repo_url, parent, task_id, repositories, json_file, submitted,
                   metadata, published, props_file, events>>

\* main without the test of args.compose.
CheckCompose_no_check ==
    /\ pc = "args"
    /\ pc' = "config"
    /\ UNCHANGED <<envVars, env_result, release, branch_result, runVars>>

\* if args.compose is None: raise SystemExit(err)
CheckCompose ==
    /\ pc = "args"
    /\ IF compose_url = None
       THEN Exit([exc |-> "SystemExit", msg |-> NoComposeMessage])
       ELSE pc' = "config" /\ UNCHANGED <<exit_status, error>>
    /\ UNCHANGED <<envVars, env_result, release, branch_result, compose_url,
                   compose_id, base_product, repo_url, parent, task_id,
                   repositories, json_file, submitted, metadata, published,
                   props_file, events>>

\* configp = config.load()
LoadConfig ==
    /\ pc = "config"
    /\ \E ok \in BOOLEAN :
        /\ events' = Append(events, Call("config.load", IF ok THEN [py |-> "ConfigParser"] ELSE Raised))
        /\ IF ok THEN pc' = "compose" /\ UNCHANGED <<exit_status, error>>
                 ELSE Fail("ConfigError")
    /\ UNCHANGED <<envVars, env_result, release, branch_result, compose_url,
                   compose_id, base_product, repo_url, parent, task_id,
                   repositories, json_file, submitted, metadata, published,
                   props_file>>

\* get_compose, first half: the keys section, the RepoCompose and its release
\* information, read from the compose.
ReadCompose ==
    /\ pc = "compose"
    /\ \/ /\ events' = Append(events, Call("compose.read", Raised))
          /\ Fail("ComposeError")
          /\ UNCHANGED <<release, compose_id>>
       \/ \E rel \in MainReleases, id \in ComposeIds :
          /\ events' = Append(events, Call("compose.read", id))
          /\ release' = rel
          /\ compose_id' = id
          /\ pc' = "base"
          /\ UNCHANGED <<exit_status, error>>
    /\ UNCHANGED <<envVars, env_result, branch_result, compose_url, base_product,
                   repo_url, parent, task_id, repositories, json_file, submitted,
                   metadata, published, props_file>>

\* config.lookup(configp, section, key, fatal): the value of the key, and for
\* a key that is not there an error when fatal, None otherwise.
Lookup(value, fatal) ==
    IF value # Absent THEN Ret(value)
    ELSE IF fatal THEN Raise("ConfigError") ELSE Ret(None)

\* What the lookup of a non-fatal key returns for a key set to v (Absent if unset).
Optional(v) == Lookup(v, FALSE).val

\* A lookup in the <branch>-base section: the key, whether the section has
\* it, and what config.lookup gave back (Raised if it raised).
LookupCall(key, value, outcome) ==
    [call |-> "config.lookup", key |-> key, found |-> value # Absent,
     ret |-> IF outcome.kind = "raise" THEN Raised ELSE outcome.val]

\* The lookups, were gpgkey looked up like url, without fatal=False.
LookupBaseProduct_gpgkey_fatal ==
    /\ pc = "base"
    /\ \E url \in {Absent, Str(<<"b","/">>)},
          gpgkey \in {Absent, Str(<<"k">>)},
          extras \in {Absent, Str(<<"e">>)},
          parent_image \in {Absent, Str(<<>>), Str(<<"i","m","g">>)} :
        LET section == get_branch(release).s \o <<"-","b","a","s","e">>
            bp_url  == Lookup(url, TRUE)
            bp_gpgkey == Lookup(gpgkey, TRUE)
        IN IF bp_url.kind = "raise"
           THEN /\ events' = Append(events, LookupCall("url", url, bp_url))
                /\ Fail(bp_url.exc)
                /\ UNCHANGED base_product
           ELSE IF bp_gpgkey.kind = "raise"
           THEN /\ events' = events \o <<LookupCall("url", url, bp_url),
                                          LookupCall("gpgkey", gpgkey, bp_gpgkey)>>
                /\ Fail(bp_gpgkey.exc)
                /\ UNCHANGED base_product
           ELSE /\ events' = events \o
                    <<LookupCall("url", url, bp_url),
                      LookupCall("gpgkey", gpgkey, bp_gpgkey),
                      LookupCall("extras", extras, Lookup(extras, FALSE)),
                      LookupCall("parent_image", parent_image, Lookup(parent_image, FALSE))>>
                /\ base_product' = [section |-> section,
                                    url |-> bp_url.val,
                                    gpgkey |-> bp_gpgkey.val,
                                    extras |-> Optional(extras),
                                    parent_image |-> Optional(parent_image)]
                /\ pc' = "repofile"
                /\ UNCHANGED <<exit_status, error>>
    /\ UNCHANGED <<envVars, env_result, release, branch_result, compose_url,
                   compose_id, repo_url, parent, task_id, repositories, json_file,
                   submitted, metadata, published, props_file>>

\* get_compose, second half: the <branch>-base section of the configuration.
LookupBaseProduct ==
    /\ pc = "base"
    /\ \E url \in {Absent, Str(<<"b","/">>)},
          gpgkey \in {Absent, Str(<<"k">>)},
          extras \in {Absent, Str(<<"e">>)},
          parent_image \in {Absent, Str(<<>>), Str(<<"i","m","g">>)} :
        LET section == get_branch(release).s \o <<"-","b","a","s","e">>
            bp_url  == Lookup(url, TRUE)
        IN IF bp_url.kind = "raise"
           THEN /\ events' = Append(events, LookupCall("url", url, bp_url))
                /\ Fail(bp_url.exc)
                /\ UNCHANGED base_product
           ELSE /\ events' = events \o
                    <<LookupCall("url", url, bp_url),
                      LookupCall("gpgkey", gpgkey, Lookup(gpgkey, FALSE)),
                      LookupCall("extras", extras, Lookup(extras, FALSE)),
                      LookupCall("parent_image", parent_image, Lookup(parent_image, FALSE))>>
                /\ base_product' = [section |-> section,
                                    url |-> bp_url.val,
                                    gpgkey |-> Optional(gpgkey),
                                    extras |-> Optional(extras),
                                    parent_image |-> Optional(parent_image)]
                /\ pc' = "repofile"
                /\ UNCHANGED <<exit_status, error>>
    /\ UNCHANGED <<envVars, env_result, release, branch_result, compose_url,
                   compose_id, repo_url, parent, task_id, repositories, json_file,
                   submitted, metadata, published, props_file>>

\* filename = c.write_yum_repo_file()
WriteRepoFile ==
    /\ pc = "repofile"
    /\ \E ok \in BOOLEAN :
        /\ events' = Append(events, Call("write_yum_repo_file", IF ok THEN Str(<<"r","e","p","o">>) ELSE Raised))
        /\ IF ok THEN pc' = "publisher" /\ UNCHANGED <<exit_status, error>>
                 ELSE Fail("ComposeError")
    /\ UNCHANGED <<envVars, env_result, release, branch_result, compose_url,
                   compose_id, base_product, repo_url, parent, task_id,
                   repositories, json_file, submitted, metadata, published,
                   props_file>>

\* get_publisher: both lookups are fatal.
GetPublisher ==
    /\ pc = "publisher"
    /\ \E push \in {Absent, Str(<<"p","/">>)}, http \in {Absent, Str(<<"h","/">>)} :
        IF Lookup(push, TRUE).kind = "raise" \/ Lookup(http, TRUE).kind = "raise"
        THEN Fail("ConfigError")
        ELSE pc' = "publish_repo" /\ UNCHANGED <<exit_status, error>>
    /\ UNCHANGED <<envVars, env_result, release, branch_result, compose_url,
                   compose_id, base_product, repo_url, parent, task_id,
                   repositories, json_file, submitted, metadata, published,
                   props_file, events>>

\* The publication of the .repo file, were its failure caught and the run
\* carried on without a repo URL.
PublishRepo_swallow ==
    /\ pc = "publish_repo"
    /\ \/ /\ events' = Append(events, Call("publish", Raised))
          /\ pc' = "branch"
          /\ UNCHANGED <<repo_url, published, exit_status, error>>
       \/ \E u \in PublicUrls :
          /\ events' = Append(events, Call("publish", u))
          /\ published' = Append(published, [file |-> "repo", url |-> u])
          /\ repo_url' = u
          /\ pc' = "branch"
          /\ UNCHANGED <<exit_status, error>>
    /\ UNCHANGED <<envVars, env_result, release, branch_result, compose_url,
                   compose_id, base_product, parent, task_id, repositories,
                   json_file, submitted, metadata, props_file>>

\* repo_url = p.publish(filename)
PublishRepo ==
    /\ pc = "publish_repo"
    /\ \/ /\ events' = Append(events, Call("publish", Raised))
          /\ Fail("PublishError")
          /\ UNCHANGED <<repo_url, published>>
       \/ \E u \in PublicUrls :
          /\ events' = Append(events, Call("publish", u))
          /\ published' = Append(published, [file |-> "repo", url |-> u])
          /\ repo_url' = u
          /\ pc' = "branch"
          /\ UNCHANGED <<exit_status, error>>
    /\ UNCHANGED <<envVars, env_result, release, branch_result, compose_url,
                   compose_id, base_product, parent, task_id, repositories,
                   json_file, submitted, metadata, props_file>>

\* branch = get_branch(c)
ResolveBranch ==
    /\ pc = "branch"
    /\ branch_result' = get_branch(release)
    /\ pc' = "koji"
    /\ UNCHANGED <<envVars, env_result, release, runVars>>

\* build_container, were the registry asked whatever parent_image is.
KojiSetup_always_registry ==
    /\ pc = "koji"
    /\ \E ok \in BOOLEAN :
        IF ok
        THEN /\ parent' = None
             /\ pc' = "registry"
             /\ UNCHANGED <<exit_status, error>>
        ELSE Fail("ConfigError") /\ UNCHANGED parent
    /\ UNCHANGED <<envVars, env_result, release, branch_result, compose_url,
                   compose_id, base_product, repo_url, task_id, repositories,
                   json_file, submitted, metadata, published, props_file, events>>

\* build_container, up to `parent = None`: the koji section and the KojiBuilder.
KojiSetup ==
    /\ pc = "koji"
    /\ \E ok \in BOOLEAN :
        IF ok
        THEN /\ parent' = None
             /\ pc' = IF Truthy(base_product.parent_image) THEN "registry" ELSE "submit"
             /\ UNCHANGED <<exit_status, error>>
        ELSE Fail("ConfigError") /\ UNCHANGED parent
    /\ UNCHANGED <<envVars, env_result, release, branch_result, compose_url,
                   compose_id, base_product, repo_url, task_id, repositories,
                   json_file, submitted, metadata, published, props_file, events>>

\* The body of `if parent_image:`.
ResolveParent ==
    /\ pc = "registry"
    /\ \/ \* the registry url is not configured
          /\ events' = Append(events, Call("lookup registry url", Raised))
          /\ Fail(Lookup(Absent, TRUE).exc)
          /\ UNCHANGED parent
       \/ /\ events' = events \o <<Call("lookup registry url", Str(<<"r","/">>)),
                                     Call("registry.build", Raised)>>
          /\ Fail("RegistryError")
          /\ UNCHANGED parent
       \/ \E b \in ParentBuilds :
          /\ events' = events \o <<Call("lookup registry url", Str(<<"r","/">>)),
                                     Call("registry.build", b)>>
          /\ parent' = b
          /\ pc' = "submit"
          /\ UNCHANGED <<exit_status, error>>
    /\ UNCHANGED <<envVars, env_result, release, branch_result, compose_url,
                   compose_id, base_product, repo_url, task_id, repositories,
                   json_file, submitted, metadata, published, props_file>>

\* The submission, were it tried again after a failure.
SubmitBuild_retry ==
    /\ pc = "submit"
    /\ submitted' = Append(submitted, [branch |-> branch_result,
                                        repos |-> <<repo_url>>,
                                        scratch |-> TRUE,
                                        koji_parent_build |-> parent])
    /\ \/ /\ events' = Append(events, Call("koji.build_container", Raised))
          /\ UNCHANGED <<pc, task_id, exit_status, error>>
       \/ \E t \in TaskIds :
          /\ events' = Append(events, Call("koji.build_container", PyInt(t)))
          /\ task_id' = PyInt(t)
          /\ pc' = "watch"
          /\ UNCHANGED <<exit_status, error>>
    /\ UNCHANGED <<envVars, env_result, release, branch_result, compose_url,
                   compose_id, base_product, repo_url, parent, repositories,
                   json_file, metadata, published, props_file>>

\* The submission, were the base product url passed as the repo.
SubmitBuild_wrong_repo ==
    /\ pc = "submit"
    /\ submitted' = Append(submitted, [branch |-> branch_result,
                                        repos |-> <<base_product.url>>,
                                        scratch |-> TRUE,
                                        koji_parent_build |-> parent])
    /\ \/ /\ events' = Append(events, Call("koji.build_container", Raised))
          /\ Fail("KojiError")
          /\ UNCHANGED task_id
       \/ \E t \in TaskIds :
          /\ events' = Append(events, Call("koji.build_container", PyInt(t)))
          /\ task_id' = PyInt(t)
          /\ pc' = "watch"
          /\ UNCHANGED <<exit_status, error>>
    /\ UNCHANGED <<envVars, env_result, release, branch_result, compose_url,
                   compose_id, base_product, repo_url, parent, repositories,
                   json_file, metadata, published, props_file>>

\* task_id = koji.build_container(...)
SubmitBuild ==
    /\ pc = "submit"
    /\ submitted' = Append(submitted, [branch |-> branch_result,
                                        repos |-> <<repo_url>>,
                                        scratch |-> TRUE,
                                        koji_parent_build |-> parent])
    /\ \/ /\ events' = Append(events, Call("koji.build_container", Raised))
          /\ Fail("KojiError")
          /\ UNCHANGED task_id
       \/ \E t \in TaskIds :
          /\ events' = Append(events, Call("koji.build_container", PyInt(t)))
          /\ task_id' = PyInt(t)
          /\ pc' = "watch"
          /\ UNCHANGED <<exit_status, error>>
    /\ UNCHANGED <<envVars, env_result, release, branch_result, compose_url,
                   compose_id, base_product, repo_url, parent, repositories,
                   json_file, metadata, published, props_file>>

\* koji.watch_task(task_id); result = {'koji_task': task_id}
WatchTask ==
    /\ pc = "watch"
    /\ \E ok \in BOOLEAN :
        /\ events' = Append(events, Call("koji.watch_task", IF ok THEN None ELSE Raised))
        /\ IF ok THEN /\ metadata' = Dict(K_koji_task :> task_id)
                      /\ pc' = "collect"
                      /\ UNCHANGED <<exit_status, error>>
                 ELSE Fail("KojiError") /\ UNCHANGED metadata
    /\ UNCHANGED <<envVars, env_result, release, branch_result, compose_url,
                   compose_id, base_product, repo_url, parent, task_id,
                   repositories, json_file, submitted, published, props_file>>

\* The result without the collapse.
Collapse_always_plural(result, repos) ==
    Dict(result.items @@ (K_repositories :> repos))

\* The collapse of "repositories" to "repository".
Collapse(result, repos) ==
    IF Len(repos.items) = 1
    THEN Dict(result.items @@ (K_repository :> repos.items[1]))
    ELSE Dict(result.items @@ (K_repositories :> repos))

\* repositories = koji.get_repositories(task_id), and the rest of build_container.
CollectResult ==
    /\ pc = "collect"
    /\ \/ /\ events' = Append(events, Call("koji.get_repositories", Raised))
          /\ Fail("KojiError")
          /\ UNCHANGED <<repositories, metadata>>
       \/ \E repos \in SeqsUpTo(RepoNames, MaxRepos) :
          /\ events' = Append(events, Call("koji.get_repositories", PyList(repos)))
          /\ repositories' = PyList(repos)
          /\ metadata' = Collapse(metadata, PyList(repos))
          /\ pc' = "metadata"
          /\ UNCHANGED <<exit_status, error>>
    /\ UNCHANGED <<envVars, env_result, release, branch_result, compose_url,
                   compose_id, base_product, repo_url, parent, task_id, json_file,
                   submitted, published, props_file>>

\* json.dump(kwargs, f, sort_keys=True): the members of the JSON object.
JsonDump(kwargs) == {[key |-> k, value |-> kwargs.items[k]] : k \in DOMAIN kwargs.items}

\* The metadata, were compose_url taken from the environment's resolution
\* instead of args.compose.
WriteMetadataFile_from_env ==
    /\ pc = "metadata"
    /\ LET md == Dict((K_compose_url :> env_result.val) @@ (K_compose_id :> compose_id)
                        @@ metadata.items)
       IN /\ metadata' = md
          /\ json_file' = [name |-> compose_id.s \o <<"-","o","s","b","s",".","j","s","o","n">>,
                           content |-> JsonDump(md)]
    /\ pc' = "publish_json"
    /\ UNCHANGED <<envVars, env_result, release, branch_result, compose_url,
                   compose_id, base_product, repo_url, parent, task_id,
                   repositories, submitted, published, props_file, events,
                   exit_status, error>>

\* metadata['compose_url'], metadata['compose_id'] and write_metadata_file.
WriteMetadataFile ==
    /\ pc = "metadata"
    /\ LET md == Dict((K_compose_url :> compose_url) @@ (K_compose_id :> compose_id)
                        @@ metadata.items)
       IN /\ metadata' = md
          /\ json_file' = [name |-> compose_id.s \o <<"-","o","s","b","s",".","j","s","o","n">>,
                           content |-> JsonDump(md)]
    /\ pc' = "publish_json"
    /\ UNCHANGED <<envVars, env_result, release, branch_result, compose_url,
                   compose_id, base_product, repo_url, parent, task_id,
                   repositories, submitted, published, props_file, events,
                   exit_status, error>>

\* The publication of the JSON file, were its failure logged and passed over.
PublishMetadata_swallow ==
    /\ pc = "publish_json"
    /\ \/ /\ events' = Append(events, Call("publish", Raised))
          /\ pc' = "props"
          /\ UNCHANGED <<published, exit_status, error>>
       \/ \E u \in PublicUrls :
          /\ events' = Append(events, Call("publish", u))
          /\ published' = Append(published, [file |-> "json", url |-> u])
          /\ pc' = "props"
          /\ UNCHANGED <<exit_status, error>>
    /\ UNCHANGED <<envVars, env_result, release, branch_result, compose_url,
                   compose_id, base_product, repo_url, parent, task_id,
                   repositories, json_file, submitted, metadata, props_file>>

\* json_url = p.publish(json_file)
PublishMetadata ==
    /\ pc = "publish_json"
    /\ \/ /\ events' = Append(events, Call("publish", Raised))
          /\ Fail("PublishError")
          /\ UNCHANGED published
       \/ \E u \in PublicUrls :
          /\ events' = Append(events, Call("publish", u))
          /\ published' = Append(published, [file |-> "json", url |-> u])
          /\ pc' = "props"
          /\ UNCHANGED <<exit_status, error>>
    /\ UNCHANGED <<envVars, env_result, release, branch_result, compose_url,
                   compose_id, base_product, repo_url, parent, task_id,
                   repositories, json_file, submitted, metadata, props_file>>

\* The lines, were key.upper() forgotten.
PropsLines_no_upper(kwargs) ==
    {k \o <<"=">> \o StrOf(kwargs.items[k]) : k \in DOMAIN kwargs.items}

\* The lines write_props_file writes for kwargs.
PropsLines(kwargs) ==
    {Upper(k) \o <<"=">> \o StrOf(kwargs.items[k]) : k \in DOMAIN kwargs.items}

\* write_props_file, were it given the build result without the compose entries.
WritePropsFile_build_result_only ==
    /\ pc = "props"
    /\ IF workspace = "unset"
       THEN /\ pc' = "done" /\ exit_status' = PyInt(0)
            /\ UNCHANGED <<props_file, error>>
       ELSE IF workspace = "dir"
       THEN /\ props_file' =
                 [lines |-> PropsLines(Dict([k \in DOMAIN metadata.items
                                                \ {K_compose_url, K_compose_id}
                                             |-> metadata.items[k]]))]
            /\ pc' = "done" /\ exit_status' = PyInt(0)
            /\ UNCHANGED error
       ELSE Fail("IOError") /\ UNCHANGED props_file
    /\ UNCHANGED <<envVars, env_result, release, branch_result, compose_url,
                   compose_id, base_product, repo_url, parent, task_id,
                   repositories, json_file, submitted, metadata, published,
                   events>>

\* write_props_file, were the IOError of open() caught and dropped.
WritePropsFile_best_effort ==
    /\ pc = "props"
    /\ props_file' = IF workspace = "dir" THEN [lines |-> PropsLines(metadata)]
                                          ELSE props_file
    /\ pc' = "done" /\ exit_status' = PyInt(0)
    /\ UNCHANGED <<envVars, env_result, release, branch_result, compose_url,
                   compose_id, base_product, repo_url, parent, task_id,
                   repositories, json_file, submitted, metadata, published,
                   events, error>>

\* write_props_file(**metadata), and the return from main.  open() raises
\* IOError when $WORKSPACE is not an existing directory.
WritePropsFile ==
    /\ pc = "props"
    /\ IF workspace = "unset"
       THEN /\ pc' = "done" /\ exit_status' = PyInt(0)
            /\ UNCHANGED <<props_file, error>>
       ELSE IF workspace = "dir"
       THEN /\ props_file' = [lines |-> PropsLines(metadata)]
            /\ pc' = "done" /\ exit_status' = PyInt(0)
            /\ UNCHANGED error
       ELSE Fail("IOError") /\ UNCHANGED props_file
    /\ UNCHANGED <<envVars, env_result, release, branch_result, compose_url,
                   compose_id, base_product, repo_url, parent, task_id,
                   repositories, json_file, submitted, metadata, published,
                   events>>

Next ==
    \/ ParseArgs
    \/ CheckCompose
    \/ LoadConfig
    \/ ReadCompose
    \/ LookupBaseProduct
    \/ WriteRepoFile
    \/ GetPublisher
    \/ PublishRepo
    \/ ResolveBranch
    \/ KojiSetup
    \/ ResolveParent
    \/ SubmitBuild
    \/ WatchTask
    \/ CollectResult
    \/ WriteMetadataFile
    \/ PublishMetadata
    \/ WritePropsFile

Spec == Init /\ [][Next]_vars

\* main is one thread running its statements in order (lines 175-214): as
\* long as a statement remains and every collaborator call returns, the next
\* statement is executed.
SpecFair == Spec /\ WF_vars(Next)

----------------------------------------------------------------------------
(* Properties of the run (checked under Spec) *)

\* Positions in events of the calls of the named collaborator operation.
Calls(name) == {i \in DOMAIN events : events[i].call = name}
\* The run has ended.
Ended == pc \in {"done", "failed"}
\* The metadata JSON file has been published.
JsonPublished == \E i \in DOMAIN published : published[i].file = "json"
HasEntry(k) == k \in DOMAIN metadata.items

\* C7: whatever sequence koji.get_repositories returns, the build result has
\* exactly one of the keys repository / repositories: a sequence of one
\* element gives repository, equal to that element, and no repositories; a
\* sequence of zero, two or more elements gives repositories, equal to the
\* whole sequence in the order returned, and no repository.
C7_CardinalityCollapse ==
    repositories # None =>
        IF Len(repositories.items) = 1
        THEN /\ HasEntry(K_repository) /\ ~HasEntry(K_repositories)
             /\ metadata.items[K_repository] = repositories.items[1]
        ELSE /\ HasEntry(K_repositories) /\ ~HasEntry(K_repository)
             /\ metadata.items[K_repositories].py = "list"
             /\ metadata.items[K_repositories].items = repositories.items

\* Two different repositories came back, and are stored in the order returned.
C7_Witness ==
    /\ repositories = PyList(<<Str(<<"r","2">>), Str(<<"r","1">>)>>)
    /\ HasEntry(K_repositories)
    /\ metadata.items[K_repositories].items = <<Str(<<"r","2">>), Str(<<"r","1">>)>>

\* C8: once the build has been submitted: with a parent image configured (a
\* non-empty parent_image), registry.build was called exactly once, before
\* koji.build_container, and the submission carries what it returned; with
\* none configured, registry.build was never called, the registry url was
\* never looked up, and the submission carries no parent.
C8_ParentResolution ==
    Len(submitted) >= 1 =>
        IF base_product.parent_image # None /\ base_product.parent_image # Str(<<>>)
        THEN /\ Cardinality(Calls("registry.build")) = 1
             /\ \A i \in Calls("registry.build") :
                   /\ \A j \in Calls("koji.build_container") : i < j
                   /\ submitted[1].koji_parent_build = events[i].ret
                   /\ events[i].ret \in ParentBuilds
        ELSE /\ Calls("registry.build") = {}
             /\ Calls("lookup registry url") = {}
             /\ submitted[1].koji_parent_build = None

\* A parent image is configured and the second build reference of the
\* registry went into the submission.
C8_Witness ==
    /\ Len(submitted) = 1
    /\ base_product.parent_image = Str(<<"i","m","g">>)
    /\ submitted[1].koji_parent_build = [py |-> "Build", nvr |-> 2]
    /\ Cardinality(Calls("registry.build")) = 1

\* C9: with no --compose argument and an environment that resolves to null,
\* the run goes nowhere but to Failed, with the message and exit status 1,
\* and no collaborator has been called: no configuration load, compose read,
\* publish, registry lookup or build submission.
C9_NoComposeUrlFailsEarly ==
    (cli_compose = None /\ env_result = Ret(None)) =>
        /\ pc \in {"args", "failed"}
        /\ events = <<>> /\ published = <<>> /\ submitted = <<>>
        /\ pc = "failed" =>
              /\ exit_status = PyInt(1)
              /\ error = [exc |-> "SystemExit", msg |-> NoComposeMessage]

\* No argument, no payload, no COMPOSE_URL: the run has failed with the message.
C9_Witness ==
    /\ pc = "failed"
    /\ cli_compose = None /\ ci_message = Absent /\ env_compose_url = Absent
    /\ env_result = Ret(None)
    /\ error = [exc |-> "SystemExit", msg |-> NoComposeMessage]

\* C10 as stated: a failure of the properties file is not fatal: a run whose
\* metadata JSON was published ends in Done, not Failed.
C10_PropsFailureNotFatal ==
    (Ended /\ JsonPublished) => pc = "done"

\* C10, amended: a failure of the properties file is fatal: when WORKSPACE
\* names a directory that does not exist, the IOError propagates and a run
\* whose metadata JSON was published ends in Failed with exit status 1 and no
\* properties file; with WORKSPACE unset or naming a directory, it ends in Done.
C10_PropsFailureIsFatal ==
    (Ended /\ JsonPublished) =>
        IF workspace = "nodir"
        THEN /\ pc = "failed"
             /\ exit_status = PyInt(1)
             /\ error = [exc |-> "IOError"]
             /\ props_file = None
        ELSE pc = "done" /\ exit_status = PyInt(0)

\* The JSON is published, WORKSPACE names no directory, and the run has failed.
C10_Witness ==
    /\ pc = "failed"
    /\ workspace = "nodir"
    /\ JsonPublished
    /\ error = [exc |-> "IOError"]

\* C11: when --compose is given, the run uses exactly that URL, whatever the
\* CI payload and the fallback template: resolution from the environment
\* neither changes the URL nor decides whether the run proceeds (the run does
\* not end before the configuration is loaded).
C11_CliComposeOverrides ==
    (cli_compose # None /\ pc # "start") =>
        /\ compose_url = cli_compose
        /\ pc = "failed" => events # <<>>

\* The compose URL the run was started with: --compose, or else what the
\* environment resolved to.
StartedUrl == IF cli_compose # None THEN cli_compose ELSE env_result.val
\* What the named collaborator call returned (the call happened once).
Returned(name) == events[CHOOSE i \in Calls(name) : TRUE].ret
\* The named collaborator call happened once and returned.
Completed(name) ==
    /\ Cardinality(Calls(name)) = 1
    /\ \A i \in Calls(name) : events[i].ret # Raised
JsonKeys == {e.key : e \in json_file.content}
JsonEntry(k, v) == [key |-> k, value |-> v] \in json_file.content

\* C12: a metadata record that is written or published holds compose_url, equal
\* to the compose URL the run was started with, compose_id, equal to the
\* identifier of the compose, the task identifier of the build, and exactly
\* one of repository / repositories; and none is written unless the build
\* was submitted, watched and its repositories collected.
C12_MetadataRecord ==
    /\ (JsonPublished \/ props_file # None) => json_file # None
    /\ json_file # None =>
          /\ Completed("koji.build_container")
          /\ Completed("koji.watch_task")
          /\ Completed("koji.get_repositories")
          /\ JsonEntry(K_compose_url, StartedUrl)
          /\ JsonEntry(K_compose_id, Returned("compose.read"))
          /\ JsonEntry(K_koji_task, Returned("koji.build_container"))
          /\ (K_repository \in JsonKeys) # (K_repositories \in JsonKeys)
          /\ JsonKeys \subseteq {K_compose_url, K_compose_id, K_koji_task,
                                  K_repository, K_repositories}
          /\ Cardinality(json_file.content) = 4

\* --compose was given while the environment resolves to another URL, and the
\* published record holds the URL of --compose.
C12_Witness ==
    /\ JsonPublished
    /\ cli_compose = Str(S_url)
    /\ env_result = Ret(Str(P_lit))
    /\ JsonEntry(K_compose_url, Str(S_url))
    /\ JsonEntry(K_koji_task, PyInt(12))

\* write_props_file has been called, and has returned or raised.
PropsCalled == pc = "done" \/ (pc = "failed" /\ JsonPublished)
\* The text of a metadata value in a line of the properties file.
ValueText(v) ==
    IF v.py = "str" THEN v.s
    ELSE IF v.py = "int" THEN NatToStr(v.n)
    ELSE StrOf(v)
\* The file holds one KEY=value line for each entry of the metadata record,
\* with the key in upper case, and no other line.
OneLinePerEntry ==
    /\ Cardinality(props_file.lines) = Cardinality(DOMAIN metadata.items)
    /\ \A k \in DOMAIN metadata.items :
          Upper(k) \o <<"=">> \o ValueText(metadata.items[k]) \in props_file.lines
    /\ <<"C","O","M","P","O","S","E","_","I","D","=","i","d">> \in props_file.lines
    /\ <<"K","O","J","I","_","T","A","S","K","=","1","2">> \in props_file.lines
    /\ compose_url = Str(S_url) =>
          <<"C","O","M","P","O","S","E","_","U","R","L","=","c","/">> \in props_file.lines
    /\ repositories = PyList(<<Str(<<"r","2">>)>>) =>
          <<"R","E","P","O","S","I","T","O","R","Y","=","r","2">> \in props_file.lines

\* C13 as stated: once write_props_file has been called, the properties file
\* is written if and only if WORKSPACE is in the environment, and it then
\* holds exactly one KEY=value line per entry of the metadata record.
C13_PropsIffWorkspaceSet ==
    /\ props_file # None => workspace # "unset"
    /\ PropsCalled =>
          /\ (props_file # None) <=> (workspace # "unset")
          /\ props_file # None => OneLinePerEntry

\* C13, amended: once write_props_file has been called, the properties file is
\* written if and only if WORKSPACE is in the environment and names an
\* existing directory, and it then holds exactly one KEY=value line per entry
\* of the metadata record, the key in upper case and the value as str() gives it.
C13_PropsIffWorkspaceDir ==
    /\ props_file # None => workspace = "dir"
    /\ PropsCalled =>
          /\ (props_file # None) <=> (workspace = "dir")
          /\ props_file # None => OneLinePerEntry

\* The file is written, with the line of a single repository.
C13_Witness ==
    /\ pc = "done"
    /\ workspace = "dir"
    /\ props_file # None
    /\ <<"R","E","P","O","S","I","T","O","R","Y","=","r","1">> \in props_file.lines
    /\ Cardinality(props_file.lines) = 4

\* The names of the calls made so far, in call order.
CallNames == [i \in DOMAIN events |-> events[i].call]
\* The calls of a successful run, up to and after the parent image.
CallsBeforeParent ==
    <<"config.load", "compose.read",
      "config.lookup", "config.lookup", "config.lookup", "config.lookup",
      "write_yum_repo_file", "publish">>
CallsOfParent == <<"lookup registry url", "registry.build">>
CallsAfterParent ==
    <<"koji.build_container", "koji.watch_task", "koji.get_repositories", "publish">>
\* The positions of main, in program order.
Positions ==
    <<"start", "args", "config", "compose", "base", "repofile", "publisher",
      "publish_repo", "branch", "koji", "registry", "submit", "watch", "collect",
      "metadata", "publish_json", "props", "done">>
PositionOf(p) == CHOOSE i \in DOMAIN Positions : Positions[i] = p

\* In a successful run every stage has happened once, in the order of the claim.
StagesInOrder ==
    pc = "done" =>
        /\ env_result.kind = "return" /\ compose_url = StartedUrl
        /\ CallNames = CallsBeforeParent
                          \o (IF Truthy(base_product.parent_image) THEN CallsOfParent ELSE <<>>)
                          \o CallsAfterParent
        /\ \A i \in DOMAIN events : events[i].ret # Raised
        /\ base_product.section = submitted[1].branch.s \o <<"-","b","a","s","e">>
        /\ Len(submitted) = 1
        /\ submitted[1].repos = <<events[8].ret>>
        /\ published = <<[file |-> "repo", url |-> events[8].ret],
                         [file |-> "json", url |-> events[Len(events)].ret]>>
\* A step goes to the next position (past the registry when there is no
\* parent image), or to Failed.
NextStageOnly ==
    pc' # pc =>
        \/ pc' = "failed"
        \/ PositionOf(pc') = PositionOf(pc) + 1
        \/ pc = "koji" /\ pc' = "submit"

\* C14: in every successful run the stages happen once each in the order
\* request resolved, configuration loaded, compose loaded, branch resolved
\* with its <branch>-base lookup, repo descriptor generated, repo descriptor
\* published, parent resolved or skipped, build submitted, result collected,
\* metadata published, Done; each starts after the one before has returned,
\* and the repo URL of the submission is the one the publish returned.
C14_StageOrder == [](StagesInOrder) /\ [][NextStageOnly]_vars

\* A finished run with a parent image, whose repo descriptor was published at u2.
C14_Witness ==
    /\ pc = "done"
    /\ Len(events) = 14
    /\ events[8] = Call("publish", Str(<<"u","2">>))
    /\ events[10].call = "registry.build"
    /\ submitted[1].repos = <<Str(<<"u","2">>)>>

IsPrefix(p, q) == Len(p) <= Len(q) /\ SubSeq(q, 1, Len(p)) = p
\* The named call was made and raised.
RaisedIn(name) == \E i \in Calls(name) : events[i].ret = Raised

\* A call that raised is the last call of the run, and the run has failed;
\* after a failed publish of the repo descriptor there is no registry lookup
\* and no submission, after a failed build or collection no metadata file.
NothingAfterFailure ==
    /\ \A i \in DOMAIN events :
          events[i].ret = Raised => (i = Len(events) /\ pc = "failed")
    /\ pc = "failed" => exit_status = PyInt(1) /\ error # None
    /\ (RaisedIn("publish") /\ published = <<>>) =>
          /\ Calls("lookup registry url") = {} /\ Calls("registry.build") = {}
          /\ Calls("koji.build_container") = {} /\ submitted = <<>>
    /\ (\/ RaisedIn("koji.build_container") \/ RaisedIn("koji.watch_task")
        \/ RaisedIn("koji.get_repositories")) =>
          /\ json_file = None /\ props_file = None /\ ~JsonPublished
          /\ Len(published) = 1 /\ Len(submitted) = 1
\* No step is taken from Failed, and no step takes back a publication, a
\* submission or a call.
FailedIsFinalNoRollback ==
    /\ pc # "failed"
    /\ IsPrefix(published, published')
    /\ IsPrefix(submitted, submitted')
    /\ IsPrefix(events, events')

\* C15: a stage that fails fatally moves the run to Failed, which is terminal,
\* and nothing of a later stage happens afterwards (a failed publish of the
\* repo descriptor: no registry lookup, no submission; a failed build or
\* result collection: no metadata file written or published); what was
\* published or submitted before stays as it is.
C15_FailureStopsRun == [](NothingAfterFailure) /\ [][FailedIsFinalNoRollback]_vars

\* The publication of the metadata failed: the run has failed, the repo
\* descriptor is still published and the build still submitted.
C15_Witness ==
    /\ pc = "failed"
    /\ Len(events) > 0 /\ events[Len(events)] = Call("publish", Raised)
    /\ Len(published) = 1 /\ published[1].file = "repo"
    /\ Len(submitted) = 1
    /\ json_file # None

\* Position in events of the lookup of the key in the <branch>-base section.
BaseLookup(key) == {i \in Calls("config.lookup") : events[i].key = key}

\* C16: in the <branch>-base section a missing url is fatal: the run fails
\* there, before the repo descriptor is generated and before anything is
\* published; a missing gpgkey, extras or parent_image is passed on as null,
\* and the run goes on to generate the repo descriptor.
C16_BaseSectionKeys ==
    /\ \A i \in BaseLookup("url") :
          ~events[i].found =>
              /\ events[i].ret = Raised
              /\ i = Len(events)
              /\ pc = "failed" /\ error = [exc |-> "ConfigError"]
              /\ base_product = None
              /\ Calls("write_yum_repo_file") = {} /\ Calls("publish") = {}
              /\ published = <<>> /\ submitted = <<>>
    /\ \A i \in BaseLookup("gpgkey") :
          ~events[i].found => (events[i].ret = None /\ base_product.gpgkey = None)
    /\ \A i \in BaseLookup("extras") :
          ~events[i].found => (events[i].ret = None /\ base_product.extras = None)
    /\ \A i \in BaseLookup("parent_image") :
          /\ ~events[i].found => (events[i].ret = None /\ base_product.parent_image = None)
          /\ i = Len(events) => pc = "repofile"
          /\ Cardinality(BaseLookup("gpgkey")) = 1 /\ Cardinality(BaseLookup("extras")) = 1

\* The section holds url only, and the run has finished.
C16_Witness ==
    /\ pc = "done"
    /\ \A i \in BaseLookup("url") : events[i].found
    /\ \E i \in BaseLookup("gpgkey") : ~events[i].found
    /\ \E i \in BaseLookup("extras") : ~events[i].found
    /\ \E i \in BaseLookup("parent_image") : ~events[i].found
    /\ base_product.gpgkey = None /\ base_product.extras = None
    /\ base_product.parent_image = None

\* The files of the given kind published so far.
PublishedAs(kind) == {i \in DOMAIN published : published[i].file = kind}

\* C17: in a run the build is submitted at most once and each publish target,
\* the repo descriptor and the metadata JSON, is published at most once:
\* nothing is attempted again after a failure.
C17_AtMostOnce ==
    /\ Len(submitted) <= 1
    /\ Cardinality(Calls("koji.build_container")) <= 1
    /\ Cardinality(PublishedAs("repo")) <= 1
    /\ Cardinality(PublishedAs("json")) <= 1
    /\ Cardinality(Calls("publish")) <= 2
    /\ \A i, j \in Calls("publish") :
          i < j => /\ events[i].ret # Raised
                   /\ \E k \in Calls("koji.build_container") : i < k /\ k < j
    /\ \A name \in {"config.load", "compose.read", "write_yum_repo_file",
                     "registry.build", "koji.watch_task", "koji.get_repositories"} :
          Cardinality(Calls(name)) <= 1

\* The submission failed, and was made once.
C17_Witness ==
    /\ pc = "failed"
    /\ RaisedIn("koji.build_container")
    /\ Len(submitted) = 1
    /\ Cardinality(Calls("publish")) = 1

\* The properties file exists only with the JSON metadata published, and
\* holds the entries of that JSON file: the same keys up to upper case, the
\* same values.
PropsMatchJson ==
    props_file # None =>
        /\ JsonPublished /\ json_file # None
        /\ Completed("koji.get_repositories")
        /\ events[Len(events)].call = "publish" /\ events[Len(events)].ret # Raised
        /\ props_file.lines =
              {Upper(e.key) \o <<"=">> \o ValueText(e.value) : e \in json_file.content}
        /\ Cardinality(props_file.lines) = Cardinality(json_file.content)
        /\ \A e \in json_file.content :
              e.key \in {K_compose_url, K_compose_id} =>
                  Upper(e.key) \o <<"=">> \o e.value.s \in props_file.lines
\* The properties file is written by a step that starts with the JSON published.
PropsAfterJson == props_file' # props_file => (JsonPublished /\ json_file # None)

\* C18: the properties file is written only after the metadata JSON has been
\* written and published, and from the same record: whenever it exists, the
\* JSON is published and holds the same entries (keys equal up to upper
\* case, values equal).
C18_PropsAfterJson == [](PropsMatchJson) /\ [][PropsAfterJson]_vars

\* Both files exist, with two repositories in each.
C18_Witness ==
    /\ props_file # None
    /\ JsonPublished
    /\ JsonEntry(K_repositories, PyList(<<Str(<<"r","1">>), Str(<<"r","2">>)>>))
    /\ Cardinality(props_file.lines) = 4

\* A run that is done has submitted the build, collected its repositories
\* and published the JSON metadata.
DoneMeansBuilt ==
    pc = "done" =>
        /\ Len(submitted) = 1
        /\ Completed("koji.build_container")
        /\ Completed("koji.watch_task")
        /\ Completed("koji.get_repositories")
        /\ repositories # None /\ metadata # None
        /\ JsonPublished
        /\ exit_status = PyInt(0) /\ error = None
\* No step is taken from a run that has ended.
EndedIsTerminal == ~Ended

\* C19: with every collaborator call returning, every run eventually reaches
\* Done or Failed; no step is taken from either; and Done is reached only
\* with the build submitted, its result collected and the metadata JSON
\* published.
C19_Termination == <>Ended /\ [][EndedIsTerminal]_vars /\ [](DoneMeansBuilt)

\* A run that is done, with no workspace, one repository and a parent build.
C19_Witness ==
    /\ pc = "done"
    /\ workspace = "unset"
    /\ Len(submitted) = 1 /\ submitted[1].koji_parent_build # None
    /\ HasEntry(K_repository)
    /\ JsonPublished

====
